---- MODULE Spec2Model ----
(***************************************************************************)
(* Model of the workshop chat node: chapter-2/src/main.rs and              *)
(* chapter-3/src/main.rs.  The node is glue around the libp2p library: it  *)
(* listens, subscribes to one topic, dials the peers named on the command  *)
(* line, publishes what it reads from stdin and prints what the floodsub   *)
(* receive stream hands to it.  The library itself (swarm, floodsub        *)
(* engine, upgrade negotiation) is not part of the repository: it appears  *)
(* here only as the environment that fills floodsub_rx and completes or    *)
(* fails the three futures the node selects over.                          *)
(***************************************************************************)
EXTENDS Integers, Sequences, FiniteSets, TLC

VARIABLES
    chapter,        \* 2 or 3: which of the two binaries runs
    emscripten,     \* cfg!(target_os = "emscripten"), chapter 3 only
    args,           \* std::env::args().skip(1): the peer addresses
    pc,             \* position of main()
    listening,      \* the swarm has bound its listening endpoint
    subscriptions,  \* topics passed to floodsub_controller.subscribe
    dialed,         \* addresses handed to swarm_controller.dial, in order
    stdinRead,      \* items the stdin stream has produced so far
    buf,            \* chapter 2: the line buffer `buf`
    published,      \* calls of floodsub_controller.publish, in order
    floodsub_rx,    \* messages the library has put on floodsub_rx, in order
    rxPos,          \* how many of them floodsub_rx.for_each has consumed
    stdout,         \* one entry per println! call: the bytes it wrote
    swarmSt, rxSt, stdinSt   \* the three futures: "pending" or "done"

vars == <<chapter, emscripten, args, pc, listening, subscriptions, dialed,
          stdinRead, buf, published, floodsub_rx, rxPos, stdout,
          swarmSt, rxSt, stdinSt>>

----------------------------------------------------------------------------
(* Bounds *)

MaxStdin == 4      \* items read from stdin
MaxRx == 2         \* messages put on floodsub_rx
MaxArgs == 2       \* peer addresses on the command line

----------------------------------------------------------------------------
(* Bytes and text *)

NL == 10           \* b'\n'

\* "> "
Prompt == <<62, 32>>

\* "Received non-utf8 message"
NonUtf8Line == <<82, 101, 99, 101, 105, 118, 101, 100, 32, 110, 111, 110, 45,
                 117, 116, 102, 56, 32, 109, 101, 115, 115, 97, 103, 101>>

\* "Now listening on "
NowListeningOn == <<78, 111, 119, 32, 108, 105, 115, 116, 101, 110, 105, 110,
                    103, 32, 111, 110, 32>>

\* "/ip4/0.0.0.0/tcp/" and the port the endpoint was bound to: the text of
\* actual_multiaddr.  Chapter 2 asks for port 0 and the operating system
\* picks one (4001 stands for it); chapter 3 asks for 63204 and appends "/ws".
ActualMultiaddr(ch) ==
    <<47, 105, 112, 52, 47, 48, 46, 48, 46, 48, 46, 48, 47, 116, 99, 112, 47>>
    \o (IF ch = 2 THEN <<52, 48, 48, 49>>
                  ELSE <<54, 51, 50, 48, 52, 47, 119, 115>>)

\* println!: the formatted text and a newline
Println(text) == text \o <<NL>>

IsCont(b) == b >= 128 /\ b <= 191

\* Length of the well-formed UTF-8 sequence that starts at s[i], 0 if there
\* is none (what String::from_utf8 accepts: no overlong forms, no
\* surrogates, nothing above U+10FFFF, no truncated sequence).
Utf8Width(s, i) ==
    LET n == Len(s)
        b0 == s[i]
        At(k) == IF i + k <= n THEN s[i + k] ELSE 0
    IN  IF b0 < 128 THEN 1
        ELSE IF b0 >= 194 /\ b0 <= 223
             THEN IF IsCont(At(1)) THEN 2 ELSE 0
        ELSE IF b0 >= 224 /\ b0 <= 239
             THEN IF /\ \/ b0 = 224 /\ At(1) >= 160 /\ At(1) <= 191
                        \/ b0 >= 225 /\ b0 <= 236 /\ IsCont(At(1))
                        \/ b0 = 237 /\ At(1) >= 128 /\ At(1) <= 159
                        \/ b0 >= 238 /\ IsCont(At(1))
                     /\ IsCont(At(2))
                  THEN 3 ELSE 0
        ELSE IF b0 >= 240 /\ b0 <= 244
             THEN IF /\ \/ b0 = 240 /\ At(1) >= 144 /\ At(1) <= 191
                        \/ b0 >= 241 /\ b0 <= 243 /\ IsCont(At(1))
                        \/ b0 = 244 /\ At(1) >= 128 /\ At(1) <= 143
                     /\ IsCont(At(2))
                     /\ IsCont(At(3))
                  THEN 4 ELSE 0
        ELSE 0

RECURSIVE ValidUtf8From(_, _)
ValidUtf8From(s, i) ==
    IF i > Len(s) THEN TRUE
    ELSE LET w == Utf8Width(s, i)
         IN  IF w = 0 THEN FALSE ELSE ValidUtf8From(s, i + w)

\* String::from_utf8(data).is_ok(); the String holds the same bytes
FromUtf8Ok(data) == ValidUtf8From(data, 1)

----------------------------------------------------------------------------
(* Inputs *)

\* Bytes the chapter-2 stdin stream may produce
StdinBytes == {65, NL}

\* Payloads of the messages the library may put on floodsub_rx:
\* "A", "A\n", "e-acute" (two bytes), and a truncated two-byte sequence
Payloads == {<<65>>, <<65, NL>>, <<195, 169>>, <<195>>}

\* Items of the chapter-3 stdin stream: Strings, hence well-formed UTF-8
StdinStrings == {p \in {<<65>>, <<195, 169>>, <<255>>} : FromUtf8Ok(p)}

GoodAddr == "/ip4/127.0.0.1/tcp/63204/ws"
BadAddr == "localhost:63204"
ListenAddr(ch) == IF ch = 2 THEN "/ip4/0.0.0.0/tcp/0"
                            ELSE "/ip4/0.0.0.0/tcp/63204/ws"
ArgStrings == {GoodAddr, BadAddr}

\* str::parse::<Multiaddr>().is_ok()
ParsesAsMultiaddr(s) == s \in {GoodAddr, ListenAddr(2), ListenAddr(3)}

Topic(ch) == IF ch = 2 THEN "workshop-chapter2-topic"
                       ELSE "workshop-chapter3-topic"

SeqsUpTo(S, n) == UNION {[1..k -> S] : k \in 0..n}

----------------------------------------------------------------------------
(* Startup: main() up to the event loop *)

Init ==
    /\ chapter \in {2, 3}
    /\ emscripten \in (IF chapter = 3 THEN BOOLEAN ELSE {FALSE})
    /\ args \in (IF emscripten THEN {<<GoodAddr>>}
                               ELSE SeqsUpTo(ArgStrings, MaxArgs))
    /\ pc = "listen"
    /\ listening = FALSE
    /\ subscriptions = {}
    /\ dialed = <<>>
    /\ stdinRead = <<>>
    /\ buf = <<>>
    /\ published = <<>>
    /\ floodsub_rx = <<>>
    /\ rxPos = 0
    /\ stdout = <<>>
    /\ swarmSt = "pending"
    /\ rxSt = "pending"
    /\ stdinSt = "pending"

\* swarm_controller.listen_on(listen_multiaddr).expect("failed to listen"),
\* then println!("Now listening on {}", actual_multiaddr).  `ok` is the
\* library's answer.  Chapter 3 skips the whole block under emscripten.
Listen(ok) ==
    /\ pc = "listen"
    /\ IF emscripten
       THEN /\ pc' = "subscribe"
            /\ UNCHANGED <<listening, stdout>>
       ELSE IF ~ParsesAsMultiaddr(ListenAddr(chapter)) \/ ~ok
       THEN /\ pc' = "panic"
            /\ UNCHANGED <<listening, stdout>>
       ELSE /\ listening' = TRUE
            /\ stdout' = Append(stdout,
                    Println(NowListeningOn \o ActualMultiaddr(chapter)))
            /\ pc' = "subscribe"
    /\ UNCHANGED <<chapter, emscripten, args, subscriptions, dialed,
                   stdinRead, buf, published, floodsub_rx, rxPos,
                   swarmSt, rxSt, stdinSt>>

\* Subscribe without the call of subscribe: main goes on to the dial loop
SubscribeSkipped ==
    /\ pc = "subscribe"
    /\ pc' = "dial"
    /\ UNCHANGED <<chapter, emscripten, args, listening, subscriptions,
                   dialed, stdinRead, buf, published, floodsub_rx, rxPos,
                   stdout, swarmSt, rxSt, stdinSt>>

\* floodsub_controller.subscribe(&topic)
Subscribe ==
    /\ pc = "subscribe"
    /\ subscriptions' = subscriptions \cup {Topic(chapter)}
    /\ pc' = "dial"
    /\ UNCHANGED <<chapter, emscripten, args, listening, dialed, stdinRead,
                   buf, published, floodsub_rx, rxPos, stdout,
                   swarmSt, rxSt, stdinSt>>

\* Dial that hands the argument to the swarm before looking at the result of
\* the parse
DialUnparsed(ok) ==
    /\ pc = "dial"
    /\ Len(dialed) < Len(args)
    /\ LET peer == args[Len(dialed) + 1]
       IN  /\ dialed' = Append(dialed, peer)
           /\ pc' = IF ~ParsesAsMultiaddr(peer) \/ ~ok THEN "panic" ELSE "dial"
    /\ UNCHANGED <<chapter, emscripten, args, listening, subscriptions,
                   stdinRead, buf, published, floodsub_rx, rxPos, stdout,
                   swarmSt, rxSt, stdinSt>>

\* One turn of `for peer in args`: parse the argument, then dial it; either
\* .expect() panics on Err.  `ok` is the library's answer to dial.
Dial(ok) ==
    /\ pc = "dial"
    /\ Len(dialed) < Len(args)
    /\ LET peer == args[Len(dialed) + 1]
       IN  IF ~ParsesAsMultiaddr(peer) \/ ~ok
           THEN /\ pc' = "panic"
                /\ UNCHANGED dialed
           ELSE /\ dialed' = Append(dialed, peer)
                /\ pc' = "dial"
    /\ UNCHANGED <<chapter, emscripten, args, listening, subscriptions,
                   stdinRead, buf, published, floodsub_rx, rxPos, stdout,
                   swarmSt, rxSt, stdinSt>>

\* The loop is over: core.run(final_future) / platform.run(final_future)
Run ==
    /\ pc = "dial"
    /\ Len(dialed) = Len(args)
    /\ pc' = "run"
    /\ UNCHANGED <<chapter, emscripten, args, listening, subscriptions,
                   dialed, stdinRead, buf, published, floodsub_rx, rxPos,
                   stdout, swarmSt, rxSt, stdinSt>>

----------------------------------------------------------------------------
(* The event loop: final_future *)

\* final_future without the last and_then(|(_, n)| n): the outer select is Ok
\* with whichever of its two sides is Ok first, here the stdin side
FinalFutureNoNext(sw, rx, st) ==
    IF st = "done" \/ (sw = "done" /\ rx = "done") THEN "finished" ELSE "run"

\* swarm_future.select(floodsub_rx).and_then(|(_, n)| n)
\*     .select(stdin_future).and_then(|(_, n)| n)
\* is Ok once all three are Ok; until then the loop goes on.
FinalFuture(sw, rx, st) ==
    IF sw = "done" /\ rx = "done" /\ st = "done" THEN "finished" ELSE "run"

\* StdinByte without buf.clear(): the buffer keeps the lines already sent
StdinByteNoClear(byte) ==
    /\ chapter = 2
    /\ pc = "run"
    /\ stdinSt = "pending"
    /\ Len(stdinRead) < MaxStdin
    /\ stdinRead' = Append(stdinRead, byte)
    /\ buf' = Append(buf, byte)
    /\ IF byte = NL
       THEN published' = Append(published,
                    [topic |-> Topic(chapter), data |-> Append(buf, byte)])
       ELSE UNCHANGED published
    /\ UNCHANGED <<chapter, emscripten, args, pc, listening, subscriptions,
                   dialed, floodsub_rx, rxPos, stdout,
                   swarmSt, rxSt, stdinSt>>

\* Chapter 2, the closure of stdin_future: one byte of stdin
StdinByte(byte) ==
    /\ chapter = 2
    /\ pc = "run"
    /\ stdinSt = "pending"
    /\ Len(stdinRead) < MaxStdin
    /\ stdinRead' = Append(stdinRead, byte)
    /\ IF byte = NL
       THEN /\ published' = Append(published,
                    [topic |-> Topic(chapter), data |-> Append(buf, byte)])
            /\ buf' = <<>>
       ELSE /\ buf' = Append(buf, byte)
            /\ UNCHANGED published
    /\ UNCHANGED <<chapter, emscripten, args, pc, listening, subscriptions,
                   dialed, floodsub_rx, rxPos, stdout,
                   swarmSt, rxSt, stdinSt>>

\* Chapter 3, the closure of stdin_future: one String of platform.stdin()
StdinMessage(message) ==
    /\ chapter = 3
    /\ pc = "run"
    /\ stdinSt = "pending"
    /\ Len(stdinRead) < MaxStdin
    /\ stdinRead' = Append(stdinRead, message)
    /\ published' = Append(published,
            [topic |-> Topic(chapter), data |-> message])
    /\ UNCHANGED <<chapter, emscripten, args, pc, listening, subscriptions,
                   dialed, buf, floodsub_rx, rxPos, stdout,
                   swarmSt, rxSt, stdinSt>>

\* The stdin stream ends: stdin_future is Ok
StdinEnd ==
    /\ pc = "run"
    /\ stdinSt = "pending"
    /\ stdinSt' = "done"
    /\ pc' = FinalFuture(swarmSt, rxSt, "done")
    /\ UNCHANGED <<chapter, emscripten, args, listening, subscriptions,
                   dialed, stdinRead, buf, published, floodsub_rx, rxPos,
                   stdout, swarmSt, rxSt>>

\* The library, driven by swarm_future, puts a message on floodsub_rx
FloodsubDeliver(data) ==
    /\ pc = "run"
    /\ swarmSt = "pending"
    /\ rxSt = "pending"
    /\ Len(floodsub_rx) < MaxRx
    /\ floodsub_rx' = Append(floodsub_rx, [data |-> data])
    /\ UNCHANGED <<chapter, emscripten, args, pc, listening, subscriptions,
                   dialed, stdinRead, buf, published, rxPos, stdout,
                   swarmSt, rxSt, stdinSt>>

\* RxForEach without the from_utf8 test: every payload is printed as text
RxForEachRaw ==
    /\ pc = "run"
    /\ rxSt = "pending"
    /\ rxPos < Len(floodsub_rx)
    /\ stdout' = Append(stdout,
            Println(Prompt \o floodsub_rx[rxPos + 1].data))
    /\ rxPos' = rxPos + 1
    /\ UNCHANGED <<chapter, emscripten, args, pc, listening, subscriptions,
                   dialed, stdinRead, buf, published, floodsub_rx,
                   swarmSt, rxSt, stdinSt>>

\* The closure of floodsub_rx.for_each: the next message of the stream
RxForEach ==
    /\ pc = "run"
    /\ rxSt = "pending"
    /\ rxPos < Len(floodsub_rx)
    /\ LET msg == floodsub_rx[rxPos + 1]
       IN  stdout' = Append(stdout,
                IF FromUtf8Ok(msg.data)
                THEN Println(Prompt \o msg.data)
                ELSE Println(NonUtf8Line))
    /\ rxPos' = rxPos + 1
    /\ UNCHANGED <<chapter, emscripten, args, pc, listening, subscriptions,
                   dialed, stdinRead, buf, published, floodsub_rx,
                   swarmSt, rxSt, stdinSt>>

\* floodsub_rx ends after its last message: the for_each future is Ok
RxEnd ==
    /\ pc = "run"
    /\ rxSt = "pending"
    /\ rxPos = Len(floodsub_rx)
    /\ rxSt' = "done"
    /\ pc' = FinalFuture(swarmSt, "done", stdinSt)
    /\ UNCHANGED <<chapter, emscripten, args, listening, subscriptions,
                   dialed, stdinRead, buf, published, floodsub_rx, rxPos,
                   stdout, swarmSt, stdinSt>>

\* swarm_future is Ok
SwarmEnd ==
    /\ pc = "run"
    /\ swarmSt = "pending"
    /\ swarmSt' = "done"
    /\ pc' = FinalFuture("done", rxSt, stdinSt)
    /\ UNCHANGED <<chapter, emscripten, args, listening, subscriptions,
                   dialed, stdinRead, buf, published, floodsub_rx, rxPos,
                   stdout, rxSt, stdinSt>>

\* One of the three futures is Err: map_err hands the error on, final_future
\* is Err and the loop is over (chapter 2: core.run(..).unwrap() panics)
Fail(source) ==
    /\ pc = "run"
    /\ \/ source = "swarm" /\ swarmSt = "pending"
       \/ source = "floodsub_rx" /\ rxSt = "pending"
       \/ source = "stdin" /\ stdinSt = "pending"
    /\ pc' = "failed"
    /\ UNCHANGED <<chapter, emscripten, args, listening, subscriptions,
                   dialed, stdinRead, buf, published, floodsub_rx, rxPos,
                   stdout, swarmSt, rxSt, stdinSt>>

Next ==
    \/ \E ok \in BOOLEAN : Listen(ok)
    \/ Subscribe
    \/ \E ok \in BOOLEAN : Dial(ok)
    \/ Run
    \/ \E byte \in StdinBytes : StdinByte(byte)
    \/ \E message \in StdinStrings : StdinMessage(message)
    \/ StdinEnd
    \/ \E data \in Payloads : FloodsubDeliver(data)
    \/ RxForEach
    \/ RxEnd
    \/ SwarmEnd
    \/ \E source \in {"swarm", "floodsub_rx", "stdin"} : Fail(source)

Spec == Init /\ [][Next]_vars

----------------------------------------------------------------------------
(* Properties *)

\* Position of the first newline of s, 0 if it has none
FirstNL(s) ==
    IF \E i \in 1..Len(s) : s[i] = NL
    THEN CHOOSE i \in 1..Len(s) : s[i] = NL /\ \A j \in 1..(i - 1) : s[j] # NL
    ELSE 0

\* The newline-terminated lines of s, each with its newline
RECURSIVE LinesOf(_)
LinesOf(s) ==
    IF FirstNL(s) = 0 THEN <<>>
    ELSE <<SubSeq(s, 1, FirstNL(s))>>
         \o LinesOf(SubSeq(s, FirstNL(s) + 1, Len(s)))

\* What follows the last newline of s
RECURSIVE RestOf(_)
RestOf(s) ==
    IF FirstNL(s) = 0 THEN s
    ELSE RestOf(SubSeq(s, FirstNL(s) + 1, Len(s)))

\* Number of newline bytes in s
CountNL(s) == Cardinality({i \in 1..Len(s) : s[i] = NL})

\* C9 (stdin bridge).  Chapter 2: whatever bytes have been read from stdin,
\* publish has been called once per newline read, in input order, on the
\* chapter's topic; the i-th payload is the i-th line of the input, from
\* after the previous newline up to and including its own newline; the line
\* buffer holds exactly the bytes that follow the last newline (so it is
\* empty right after a publish) and those bytes have not been published.
\* Chapter 3, where the stream hands over whole Strings: publish has been
\* called once per String, in order, with the String's bytes as payload.
C9_StdinBridge ==
    /\ \A i \in 1..Len(published) : published[i].topic = Topic(chapter)
    /\ chapter = 2 =>
          /\ Len(published) = CountNL(stdinRead)
          /\ [i \in 1..Len(published) |-> published[i].data]
                = LinesOf(stdinRead)
          /\ buf = RestOf(stdinRead)
          /\ (stdinRead # <<>> /\ stdinRead[Len(stdinRead)] = NL) => buf = <<>>
    /\ chapter = 3 =>
          /\ [i \in 1..Len(published) |-> published[i].data] = stdinRead
          /\ buf = <<>>

\* C9 witness: chapter 2 has read two lines, the second one empty, and a
\* byte after the last newline, which waits in the buffer
C9_Witness ==
    /\ chapter = 2
    /\ stdinRead = <<65, NL, NL, 65>>
    /\ Len(published) = 2
    /\ published[1].data = <<65, NL>>
    /\ published[2].data = <<NL>>
    /\ buf = <<65>>

\* Entries of stdout written before the event loop
StartupLines == IF listening THEN 1 ELSE 0

\* The entry of stdout that belongs to the i-th message of floodsub_rx
LineOf(i) == stdout[StartupLines + i]

\* C10 (stdout bridge), as amended.  Every message taken from floodsub_rx
\* has produced exactly one println!, in the order of the stream: "> ", the
\* payload's text and a newline when the payload is well-formed UTF-8, the
\* line "Received non-utf8 message" otherwise.  The output of a text message
\* is one line only when the text holds no newline: it spans one line more
\* than the text has newlines.  Printing a message, whatever its payload,
\* neither ends the receive stream nor stops the event loop.
C10_StdoutBridge ==
    /\ [](/\ Len(stdout) = StartupLines + rxPos
          /\ \A i \in 1..rxPos :
                LET data == floodsub_rx[i].data
                IN  IF FromUtf8Ok(data)
                    THEN /\ LineOf(i) = <<62, 32>> \o data \o <<NL>>
                         /\ CountNL(LineOf(i)) = 1 + CountNL(data)
                    ELSE /\ LineOf(i) = NonUtf8Line \o <<NL>>
                         /\ CountNL(LineOf(i)) = 1)
    /\ [][rxPos' # rxPos =>
            /\ rxPos' = rxPos + 1
            /\ rxSt' = "pending" /\ rxSt = "pending"
            /\ pc' = "run"]_vars

\* C10 witness: a payload that is not UTF-8 was printed, the stream went on
\* and a text payload with a newline in it was printed after it
C10_Witness ==
    /\ rxPos = 2
    /\ floodsub_rx[1].data = <<195>>
    /\ floodsub_rx[2].data = <<65, NL>>
    /\ LineOf(1) = NonUtf8Line \o <<NL>>
    /\ LineOf(2) = <<62, 32, 65, NL, NL>>
    /\ rxSt = "pending"

\* C10 as stated: every message taken from floodsub_rx has produced exactly
\* one line of output
C10_OneLinePerMessage ==
    /\ Len(stdout) = StartupLines + rxPos
    /\ \A i \in 1..rxPos : CountNL(LineOf(i)) = 1

\* The dial loop stands at an argument that does not parse
AtBadArgument ==
    /\ Len(dialed) < Len(args)
    /\ ~ParsesAsMultiaddr(args[Len(dialed) + 1])

\* C11 (startup errors precede network activity), as stated.  When the
\* process has stopped at a peer address that does not parse, no listening
\* endpoint has been bound and no peer has been dialed.
C11_ParseErrorBeforeNetwork ==
    (pc = "panic" /\ AtBadArgument) => (~listening /\ dialed = <<>>)

\* C12 (invalid dial address).  A turn of the dial loop at an argument that
\* does not parse fails at once, the process stopping with the diagnostic of
\* .expect(), and hands nothing to the swarm: the addresses dialed so far are
\* what they were, and an address that does not parse is never among them.
C12_InvalidDialAddress ==
    /\ [](\A i \in 1..Len(dialed) :
            /\ ParsesAsMultiaddr(dialed[i])
            /\ dialed[i] = args[i])
    /\ [][(pc = "dial" /\ AtBadArgument) =>
            (pc' = "panic" /\ dialed' = dialed)]_vars

\* C12 witness: the second argument did not parse; the process has stopped
\* and only the first argument has been dialed
C12_Witness ==
    /\ args = <<GoodAddr, BadAddr>>
    /\ pc = "panic"
    /\ dialed = <<GoodAddr>>

\* The process is over: final_future is Ok or Err, or main has panicked
Over == pc \in {"finished", "failed", "panic"}

\* C18 (process lifetime).  final_future is Ok only when the swarm future,
\* the floodsub receive stream and the stdin stream are all three Ok, and it
\* is Ok as soon as they are; while one of them is still pending and none
\* has failed the event loop goes on, so after the end of stdin alone the
\* library can still hand over messages and a message waiting on
\* floodsub_rx can still be printed.  An Err of any one of them ends the
\* loop at once, and once the loop is over nothing more is read, published
\* or printed.
C18_ProcessLifetime ==
    /\ [](/\ pc = "finished" <=>
                (swarmSt = "done" /\ rxSt = "done" /\ stdinSt = "done")
          /\ (pc \notin {"listen", "subscribe", "dial", "panic", "failed"}
                /\ (swarmSt = "pending" \/ rxSt = "pending"
                        \/ stdinSt = "pending"))
                => pc = "run"
          /\ (pc = "run" /\ stdinSt = "done" /\ rxSt = "pending"
                /\ rxPos < Len(floodsub_rx))
                => ENABLED RxForEach
          /\ (pc = "run" /\ stdinSt = "done" /\ rxSt = "pending"
                /\ swarmSt = "pending" /\ Len(floodsub_rx) < MaxRx)
                => ENABLED FloodsubDeliver(<<65>>))
    /\ [][Over => UNCHANGED vars]_vars
    /\ [][pc' = "failed" =>
            /\ pc = "run"
            /\ UNCHANGED <<stdinRead, buf, published, floodsub_rx, rxPos,
                           stdout, swarmSt, rxSt, stdinSt>>]_vars

\* C18 witness: stdin has ended, the loop is still running, one message
\* has been printed and another one waits on floodsub_rx
C18_Witness ==
    /\ pc = "run"
    /\ stdinSt = "done"
    /\ swarmSt = "pending"
    /\ rxSt = "pending"
    /\ rxPos = 1
    /\ Len(floodsub_rx) = 2

\* C19 (startup ordering).  Whenever a peer has been dialed, the event loop
\* has been started, or a message has arrived or been handled, the chapter's
\* topic is in the subscriptions; and the subscriptions never shrink.
C19_StartupOrdering ==
    /\ []((\/ dialed # <<>>
           \/ pc \in {"run", "finished", "failed"}
           \/ floodsub_rx # <<>>
           \/ rxPos > 0
           \/ published # <<>>)
          => Topic(chapter) \in subscriptions)
    /\ [][subscriptions \subseteq subscriptions']_vars

\* C19 witness: a peer has been dialed and a message has been handled in
\* the event loop, with the topic subscribed
C19_Witness ==
    /\ pc = "run"
    /\ dialed # <<>>
    /\ rxPos > 0
    /\ subscriptions = {Topic(chapter)}

====
